---------------------------- MODULE Spec2Model ----------------------------
(***************************************************************************)
(* Model of the two hash tables of Mountain-Climber:                       *)
(*   - DoubleKeyTable    (src/double_key_table.py), a two-level open       *)
(*     addressing table: key1 -> nested LinearProbeTable, key2 -> value;   *)
(*   - InfiniteHashTable (src/infinite_hash_table.py), a trie of arrays.   *)
(*                                                                         *)
(* Strings are sequences of character codes (<<108,105,110>> is "lin").    *)
(* A Python array of length n is a sequence of length n; Python index i    *)
(* is TLA+ index i+1 (operator At).  None is the empty tuple <<>>.         *)
(* Every method is an operator from the object (a record of its fields)    *)
(* to the object after the call together with the exception raised         *)
(* ("none" when the call returns).  "Hang" marks a call whose loop never   *)
(* ends.                                                                   *)
(***************************************************************************)
EXTENDS Integers, Sequences, FiniteSets, TLC

VARIABLES dkt,     \* the DoubleKeyTable object (its fields)
          dret,    \* outcome of the last DoubleKeyTable call
          dlive,   \* ghost: (key1,key2) -> value most recently set, 0 if none
          dcalls,  \* ghost: number of set and delete calls made so far
          iht,     \* the InfiniteHashTable object (its fields)
          iret,    \* outcome of the last InfiniteHashTable call
          ilive,   \* ghost: key -> value most recently set, 0 if none
          icalls   \* ghost: number of set and delete calls made so far

vars == <<dkt, dret, dlive, dcalls, iht, iret, ilive, icalls>>
dvars == <<dkt, dret, dlive, dcalls>>
ivars == <<iht, iret, ilive, icalls>>

NoneV == <<>>

At(arr, i) == arr[i + 1]

Put(arr, i, x) == [arr EXCEPT ![i + 1] = x]

NewArray(n) == [i \in 1..n |-> NoneV]

(***************************************************************************)
(* Bounds of the model.                                                    *)
(***************************************************************************)
\* number of set and delete calls made on a DoubleKeyTable
MaxCalls == 6

\* the values stored
Values == {1, 2}

\* the (key1, key2) pairs the calls are made with: ("a","x"), ("a","y"),
\* ("br","x"), ("b","x").  "a" and "br" hash to 2 modulo 5 and to 6 modulo
\* 13, "b" to 3 and to 7, so that the three share a probe cluster at both
\* capacities; "a" is the key1 used with two key2
Pairs == {<<<<97>>, <<120>>>>, <<<<97>>, <<121>>>>, <<<<98, 114>>, <<120>>>>,
          <<<<98>>, <<120>>>>}
Keys1 == {p[1] : p \in Pairs}
Keys2 == {p[2] : p \in Pairs}

\* the sizes arguments the modelled instances are constructed with
SizesChoices == {<<5, 13>>, <<3>>}
InternalSizes == <<3, 5>>

HASH_BASE == 31
HASH_SEED == 31415

(***************************************************************************)
(* The polynomial hash shared by hash1 and hash2.                          *)
(***************************************************************************)
RECURSIVE HashLoop(_, _, _, _, _)
HashLoop(key, i, value, a, size) ==
  IF i > Len(key) THEN value
  ELSE HashLoop(key, i + 1, (key[i] + a * value) % size,
                (a * HASH_BASE) % (size - 1), size)

(***************************************************************************)
(* LinearProbeTable, the nested store (data_structures.hash_table, not in  *)
(* src/): linear probing over its own array, growth through its own size   *)
(* sequence.  Its hash is rebound to DoubleKeyTable.hash2 at creation.     *)
(***************************************************************************)
hash2(key, sub_table) == HashLoop(key, 1, 0, HASH_SEED, Len(sub_table.array))

lpt_new(sizes) ==
  [TABLE_SIZES |-> sizes, size_index |-> 0, count |-> 0,
   array |-> NewArray(sizes[1])]

RECURSIVE lpt_probe_loop(_, _, _, _, _)
lpt_probe_loop(tbl, key, is_insert, position, n) ==
  IF n = 0
  THEN [exc |-> IF is_insert THEN "FullError" ELSE "KeyError", pos |-> position]
  ELSE IF At(tbl.array, position) = NoneV
       THEN [exc |-> IF is_insert THEN "none" ELSE "KeyError", pos |-> position]
       ELSE IF At(tbl.array, position)[1] = key
            THEN [exc |-> "none", pos |-> position]
            ELSE lpt_probe_loop(tbl, key, is_insert,
                                (position + 1) % Len(tbl.array), n - 1)

lpt_linear_probe(tbl, key, is_insert) ==
  lpt_probe_loop(tbl, key, is_insert, hash2(key, tbl), Len(tbl.array))

RECURSIVE lpt_setitem(_, _, _)
RECURSIVE lpt_reinsert(_, _, _)
lpt_reinsert(tbl, old_array, i) ==
  IF i > Len(old_array) THEN tbl
  ELSE IF old_array[i] = NoneV THEN lpt_reinsert(tbl, old_array, i + 1)
       ELSE lpt_reinsert(lpt_setitem(tbl, old_array[i][1], old_array[i][2]).tbl,
                         old_array, i + 1)

lpt_rehash(tbl) ==
  IF tbl.size_index + 1 >= Len(tbl.TABLE_SIZES) THEN tbl
  ELSE lpt_reinsert([tbl EXCEPT !.size_index = @ + 1, !.count = 0,
                                !.array = NewArray(tbl.TABLE_SIZES[tbl.size_index + 2])],
                    tbl.array, 1)

lpt_setitem(tbl, key, data) ==
  LET p == lpt_linear_probe(tbl, key, TRUE) IN
  IF p.exc # "none" THEN [tbl |-> tbl, exc |-> p.exc]
  ELSE LET t1 == [tbl EXCEPT
                    !.count = IF At(tbl.array, p.pos) = NoneV THEN @ + 1 ELSE @,
                    !.array = Put(@, p.pos, <<key, data>>)]
       IN [tbl |-> IF 2 * t1.count > Len(t1.array) THEN lpt_rehash(t1) ELSE t1,
           exc |-> "none"]

\* the cluster walk of the nested table's delete: each following entry is
\* taken out of its slot and put back where probing now places it
RECURSIVE lpt_repair(_, _)
lpt_repair(tbl, position) ==
  IF At(tbl.array, position) = NoneV THEN tbl
  ELSE LET item == At(tbl.array, position)
           t1 == [tbl EXCEPT !.array = Put(@, position, NoneV)]
           newpos == lpt_linear_probe(t1, item[1], TRUE).pos
       IN lpt_repair([t1 EXCEPT !.array = Put(@, newpos, item)],
                     (position + 1) % Len(tbl.array))

lpt_delitem(tbl, key) ==
  LET p == lpt_linear_probe(tbl, key, FALSE) IN
  IF p.exc # "none" THEN [tbl |-> tbl, exc |-> p.exc]
  ELSE [tbl |-> lpt_repair([tbl EXCEPT !.array = Put(@, p.pos, NoneV),
                                       !.count = @ - 1],
                           (p.pos + 1) % Len(tbl.array)),
        exc |-> "none"]

lpt_getitem(tbl, key) ==
  LET p == lpt_linear_probe(tbl, key, FALSE) IN
  IF p.exc # "none" THEN [exc |-> p.exc, val |-> 0]
  ELSE [exc |-> "none", val |-> At(tbl.array, p.pos)[2]]


(***************************************************************************)
(* DoubleKeyTable.                                                         *)
(***************************************************************************)
dkt_new(sizes, internal_sizes) ==
  [TABLE_SIZES |-> sizes, size_index |-> 0, count |-> 0,
   top_level_array |-> NewArray(sizes[1]), internal_sizes |-> internal_sizes]

table_size(self) == Len(self.top_level_array)

hash1(self, key) == HashLoop(key, 1, 0, HASH_SEED, table_size(self))

dkt_len(self) == self.count

\* the for loop of _linear_probe; n is the number of iterations left
RECURSIVE probe_loop(_, _, _, _, _, _)
probe_loop(self, key1, key2, is_insert, position_top_level, n) ==
  IF n = 0
  THEN [self |-> self, pos |-> position_top_level,
        exc |-> IF is_insert THEN "FullError" ELSE "KeyError"]
  ELSE LET slot == At(self.top_level_array, position_top_level) IN
       IF slot = NoneV
       THEN IF is_insert
            THEN [self |-> [self EXCEPT
                     !.top_level_array =
                        Put(@, position_top_level,
                            <<key1, lpt_new(self.internal_sizes)>>),
                     !.count = @ + 1],
                  pos |-> position_top_level, exc |-> "none"]
            ELSE [self |-> self, pos |-> position_top_level, exc |-> "KeyError"]
       ELSE IF slot[1] = key1
            THEN [self |-> self, pos |-> position_top_level,
                  exc |-> lpt_linear_probe(slot[2], key2, is_insert).exc]
            ELSE probe_loop(self, key1, key2, is_insert,
                            (position_top_level + 1) % table_size(self), n - 1)

linear_probe(self, key1, key2, is_insert) ==
  probe_loop(self, key1, key2, is_insert, hash1(self, key1), table_size(self))

RECURSIVE dkt_setitem(_, _, _, _)
RECURSIVE rehash_loop(_, _, _, _)
RECURSIVE rehash(_)

\* the two nested for loops of _rehash over old_array (outer index i, raw
\* slot j of the nested table); an exception of a set ends them
rehash_loop(self, old_array, i, j) ==
  IF i > Len(old_array) THEN [self |-> self, exc |-> "none"]
  ELSE IF old_array[i] = NoneV THEN rehash_loop(self, old_array, i + 1, 1)
  ELSE LET key1 == old_array[i][1]
           inner == old_array[i][2].array
       IN IF j > Len(inner) THEN rehash_loop(self, old_array, i + 1, 1)
          ELSE IF inner[j] = NoneV THEN rehash_loop(self, old_array, i, j + 1)
          ELSE LET r == dkt_setitem(self, key1, inner[j][1], inner[j][2]) IN
               IF r.exc # "none" THEN r
               ELSE rehash_loop(r.self, old_array, i, j + 1)

rehash(self) ==
  LET s1 == [self EXCEPT !.size_index = @ + 1] IN
  IF s1.size_index = Len(s1.TABLE_SIZES) THEN [self |-> s1, exc |-> "none"]
  ELSE IF s1.size_index > Len(s1.TABLE_SIZES)
       THEN [self |-> s1, exc |-> "IndexError"]
       ELSE rehash_loop(
              [s1 EXCEPT !.top_level_array =
                            NewArray(s1.TABLE_SIZES[s1.size_index + 1]),
                         !.count = 0],
              self.top_level_array, 1, 1)

\* __setitem__ growing when count exceeds the capacity, not half of it
dkt_setitem_late_growth(self, key1, key2, data) ==
  LET p == linear_probe(self, key1, key2, TRUE) IN
  IF p.exc # "none" THEN [self |-> self, exc |-> p.exc]
  ELSE LET slot == At(p.self.top_level_array, p.pos)
           w == lpt_setitem(slot[2], key2, data)
           s1 == IF slot[1] = key1
                 THEN [p.self EXCEPT !.top_level_array =
                                        Put(@, p.pos, <<slot[1], w.tbl>>)]
                 ELSE p.self
       IN IF dkt_len(s1) > table_size(s1) THEN rehash(s1)
          ELSE [self |-> s1, exc |-> "none"]

dkt_setitem(self, key1, key2, data) ==
  LET p == linear_probe(self, key1, key2, TRUE) IN
  IF p.exc # "none" THEN [self |-> self, exc |-> p.exc]
  ELSE LET slot == At(p.self.top_level_array, p.pos)
           w == lpt_setitem(slot[2], key2, data)
           s1 == IF slot[1] = key1
                 THEN [p.self EXCEPT !.top_level_array =
                                        Put(@, p.pos, <<slot[1], w.tbl>>)]
                 ELSE p.self
       IN IF 2 * dkt_len(s1) > table_size(s1) THEN rehash(s1)
          ELSE [self |-> s1, exc |-> "none"]

\* the for loop of the cluster walk over the raw slots of one nested table
RECURSIVE walk_items(_, _, _, _)
walk_items(self, key1, inner, j) ==
  IF j > Len(inner) THEN [self |-> self, exc |-> "none"]
  ELSE IF inner[j] = NoneV THEN walk_items(self, key1, inner, j + 1)
  ELSE LET r == dkt_setitem(self, key1, inner[j][1], inner[j][2]) IN
       IF r.exc # "none" THEN r
       ELSE walk_items(r.self, key1, inner, j + 1)

\* the while loop of the cluster walk; seen holds the (object, position)
\* pairs at which the loop condition was evaluated: the loop is
\* deterministic, so meeting one again means it never ends
RECURSIVE cluster_walk(_, _, _)
cluster_walk(self, key1_position, seen) ==
  IF At(self.top_level_array, key1_position) = NoneV
  THEN [self |-> self, exc |-> "none"]
  ELSE IF <<self, key1_position>> \in seen THEN [self |-> self, exc |-> "Hang"]
  ELSE LET slot == At(self.top_level_array, key1_position)
           r == walk_items(self, slot[1], slot[2].array, 1)
       IN IF r.exc # "none" THEN r
          ELSE cluster_walk(r.self, (key1_position + 1) % table_size(r.self),
                            seen \cup {<<self, key1_position>>})

dkt_delitem(self, key1, key2) ==
  LET p == linear_probe(self, key1, key2, FALSE) IN
  IF p.exc # "none" THEN [self |-> self, exc |-> p.exc]
  ELSE LET slot == At(self.top_level_array, p.pos)
           d == lpt_delitem(slot[2], key2)
           s1 == [self EXCEPT !.top_level_array = Put(@, p.pos, <<slot[1], d.tbl>>)]
       IN IF d.tbl.count = 0
          THEN cluster_walk([s1 EXCEPT !.top_level_array = Put(@, p.pos, NoneV),
                                       !.count = @ - 1],
                            (p.pos + 1) % table_size(s1), {})
          ELSE [self |-> s1, exc |-> "none"]

\* __getitem__ subscripts the outer slot, the tuple (key1, nested table),
\* with key[1]; key2 is a string, and a tuple subscripted with a string
\* raises TypeError
tuple_subscript_str(slot, key2) == [exc |-> "TypeError", val |-> 0]

dkt_getitem(self, key1, key2) ==
  LET p == linear_probe(self, key1, key2, FALSE) IN
  IF p.exc # "none" THEN [exc |-> p.exc, val |-> 0]
  ELSE tuple_subscript_str(At(self.top_level_array, p.pos), key2)

\* __contains__ without its try/except: the KeyError of the lookup escapes
dkt_contains_uncaught(self, key1, key2) ==
  LET g == dkt_getitem(self, key1, key2) IN
  IF g.exc = "none" THEN [exc |-> "none", val |-> 1]
  ELSE [exc |-> g.exc, val |-> 0]

\* val is 1 for True and 0 for False; only KeyError is caught
dkt_contains(self, key1, key2) ==
  LET g == dkt_getitem(self, key1, key2) IN
  IF g.exc = "KeyError" THEN [exc |-> "none", val |-> 0]
  ELSE IF g.exc = "none" THEN [exc |-> "none", val |-> 1]
  ELSE [exc |-> g.exc, val |-> 0]

\* keys() with no argument: the key1 of every occupied outer slot, in order
RECURSIVE keys_from(_, _)
keys_from(arr, i) ==
  IF i > Len(arr) THEN <<>>
  ELSE IF arr[i] = NoneV THEN keys_from(arr, i + 1)
       ELSE <<arr[i][1]>> \o keys_from(arr, i + 1)

dkt_keys(self) == keys_from(self.top_level_array, 1)

(***************************************************************************)
(* The DoubleKeyTable state machine.                                       *)
(***************************************************************************)
NoKey == <<<<>>, <<>>>>

DInitWith(choices) ==
  /\ \E sizes \in choices : dkt = dkt_new(sizes, InternalSizes)
  /\ dret = [op |-> "init", key |-> NoKey, exc |-> "none"]
  /\ dlive = [p \in Pairs |-> 0]
  /\ dcalls = 0

DInit == DInitWith(SizesChoices)

\* a call that never returns leaves the program inside it; the object is
\* then kept as it was when the call was made
DRunning == dret.exc # "Hang"

\* table[k1, k2] = v
DSet(k1, k2, v) ==
  /\ DRunning
  /\ dcalls < MaxCalls
  /\ dcalls' = dcalls + 1
  /\ LET r == dkt_setitem(dkt, k1, k2, v) IN
     /\ dkt' = IF r.exc = "Hang" THEN dkt ELSE r.self
     /\ dret' = [op |-> "set", key |-> <<k1, k2>>, exc |-> r.exc]
     /\ dlive' = IF r.exc = "none" THEN [dlive EXCEPT ![<<k1, k2>>] = v] ELSE dlive
  /\ UNCHANGED ivars

\* del table[k1, k2]
DDel(k1, k2) ==
  /\ DRunning
  /\ dcalls < MaxCalls
  /\ dcalls' = dcalls + 1
  /\ LET r == dkt_delitem(dkt, k1, k2) IN
     /\ dkt' = IF r.exc = "Hang" THEN dkt ELSE r.self
     /\ dret' = [op |-> "del", key |-> <<k1, k2>>, exc |-> r.exc]
     /\ dlive' = IF r.exc = "none" THEN [dlive EXCEPT ![<<k1, k2>>] = 0] ELSE dlive
  /\ UNCHANGED ivars

\* table[k1, k2], (k1, k2) in table, len(table), table.keys(): they write no
\* field of the object; what they return or raise is the value of
\* dkt_getitem, dkt_contains, dkt_len, dkt_keys on the current object
DRead(k1, k2) ==
  /\ DRunning
  /\ dkt_getitem(dkt, k1, k2).exc \in {"none", "KeyError", "TypeError"}
  /\ UNCHANGED vars

DNext ==
  \/ \E p \in Pairs, v \in Values : DSet(p[1], p[2], v)
  \/ \E p \in Pairs : DDel(p[1], p[2])
  \/ \E p \in Pairs : DRead(p[1], p[2])

(***************************************************************************)
(* InfiniteHashTable.                                                      *)
(*                                                                         *)
(* A node is an ArrayR of TABLE_SIZE slots with the counter the table      *)
(* keeps on it: [count, slots].  A slot is None, a leaf                    *)
(* <<"leaf", key, value>> (the tuple (key, value)) or a pointer            *)
(* <<"node", tag, child>> (the tuple (key[:level], child ArrayR)).         *)
(*                                                                         *)
(* get_location compares keys with "is not", so a key is an object         *)
(* [s, id]: s its characters, id its identity.  == and != compare s, "is"  *)
(* compares the object.  A slice that covers the whole string is the       *)
(* string itself; any other slice is an object that no caller holds (id    *)
(* FreshId): a new one when it has two or more characters, a shared        *)
(* one-character string otherwise, and no key passed here has fewer than   *)
(* two characters.                                                         *)
(*                                                                         *)
(* self.level is set to 0 at the start of every method that reads it, so   *)
(* it is a parameter of the loops here and no field of the object.         *)
(***************************************************************************)
TABLE_SIZE == 27

FreshId == 9

\* the key objects the calls are made with: "li", "lin" (two equal
\* objects), "lim", "liT" (ord("T") and ord("n") are congruent modulo 26)
\* and "lO" (ord("O") and ord("i") are congruent modulo 26)
KeyObjs == {[s |-> <<108, 105>>, id |-> 1],
            [s |-> <<108, 105, 110>>, id |-> 1],
            [s |-> <<108, 105, 110>>, id |-> 2],
            [s |-> <<108, 105, 109>>, id |-> 1],
            [s |-> <<108, 105, 84>>, id |-> 1],
            [s |-> <<108, 79>>, id |-> 1]}
KeyStrings == {k.s : k \in KeyObjs}

\* key[:level]
Slice(key, level) ==
  IF level >= Len(key.s) THEN key
  ELSE [s |-> SubSeq(key.s, 1, level), id |-> FreshId]

new_node == [count |-> 0, slots |-> NewArray(TABLE_SIZE)]

iht_new == [table |-> new_node, count |-> 0]

\* hash(key) with self.level = level
iht_hash(key, level) ==
  IF level < Len(key.s) THEN key.s[level + 1] % (TABLE_SIZE - 1)
  ELSE TABLE_SIZE - 1

IsLeaf(slot) == slot # NoneV /\ slot[1] = "leaf"
IsNode(slot) == slot # NoneV /\ slot[1] = "node"

\* the node reached from node by the slot indices of path
RECURSIVE NodeAt(_, _)
NodeAt(node, path) ==
  IF path = <<>> THEN node
  ELSE NodeAt(At(node.slots, Head(path))[3], Tail(path))

\* node with the node at path replaced by new
RECURSIVE ReplaceAt(_, _, _)
ReplaceAt(node, path, new) ==
  IF path = <<>> THEN new
  ELSE LET slot == At(node.slots, Head(path)) IN
       [node EXCEPT !.slots =
          Put(@, Head(path), <<slot[1], slot[2], ReplaceAt(slot[3], Tail(path), new)>>)]

Front(path) == SubSeq(path, 1, Len(path) - 1)

\* the while loop of __setitem__ from current_table (the node at path) on,
\* with self.level = level.  When the slot holds a leaf whose key and the
\* new key are both used up at the next level, both hash to the last slot
\* there and at every level below: the loop splits for ever
RECURSIVE set_loop(_, _, _, _, _)
set_loop(table, path, key, value, level) ==
  LET current_table == NodeAt(table, path)
      pos == iht_hash(key, level)
      slot == At(current_table.slots, pos)
  IN IF slot = NoneV
     THEN [table |-> ReplaceAt(table, path,
                       [count |-> current_table.count + 1,
                        slots |-> Put(current_table.slots, pos, <<"leaf", key, value>>)]),
           exc |-> "none"]
     ELSE IF IsLeaf(slot)
          THEN IF level + 1 >= Len(key.s) /\ level + 1 >= Len(slot[2].s)
               THEN [table |-> table, exc |-> "Hang"]
               ELSE LET new_table ==
                          [count |-> 1,
                           slots |-> Put(NewArray(TABLE_SIZE),
                                         iht_hash(slot[2], level + 1), slot)]
                        t1 == ReplaceAt(table, path,
                                [count |-> current_table.count + 1,
                                 slots |-> Put(current_table.slots, pos,
                                               <<"node", Slice(key, level + 1), new_table>>)])
                    IN set_loop(t1, Append(path, pos), key, value, level + 1)
          ELSE set_loop(ReplaceAt(table, path,
                                  [current_table EXCEPT !.count = @ + 1]),
                        Append(path, pos), key, value, level + 1)

iht_setitem(self, key, value) ==
  LET r == set_loop(self.table, <<>>, key, value, 0) IN
  IF r.exc # "none" THEN [self |-> self, exc |-> r.exc]
  ELSE [self |-> [table |-> r.table, count |-> self.count + 1], exc |-> "none"]

\* the first non-None entry of a node, None when there is none
RECURSIVE first_item(_, _)
first_item(slots, i) ==
  IF i > Len(slots) THEN NoneV
  ELSE IF slots[i] # NoneV THEN slots[i] ELSE first_item(slots, i + 1)

\* the collapse loop of __delitem__: current_table is the node at path
RECURSIVE collapse_loop(_, _, _)
collapse_loop(table, path, item) ==
  IF NodeAt(table, path).count = 1 /\ path # <<>>
  THEN IF item = NoneV THEN [table |-> table, exc |-> "TypeError"]
       ELSE LET parent == NodeAt(table, Front(path))
                t1 == ReplaceAt(table, Front(path),
                        [parent EXCEPT !.slots =
                           Put(@, iht_hash(item[2], Len(path) - 1), item)])
            IN collapse_loop(t1, Front(path), item)
  ELSE [table |-> table, exc |-> "none"]

\* the descent loop of __delitem__ and what follows it.  Subscripting None
\* (an empty slot) or an int (the value of a leaf with another key, taken
\* for a child table) raises TypeError
RECURSIVE del_loop(_, _, _, _)
del_loop(self, path, key, level) ==
  LET current_table == NodeAt(self.table, path)
      pos == iht_hash(key, level)
      slot == At(current_table.slots, pos)
  IN IF slot = NoneV THEN [self |-> self, exc |-> "TypeError"]
     ELSE IF slot[2].s # key.s
          THEN LET t1 == ReplaceAt(self.table, path,
                                   [current_table EXCEPT !.count = @ - 1])
               IN IF IsLeaf(slot)
                  THEN [self |-> [self EXCEPT !.table = t1], exc |-> "TypeError"]
                  ELSE del_loop([self EXCEPT !.table = t1], Append(path, pos),
                                key, level + 1)
          ELSE LET cleared == [count |-> current_table.count - 1,
                               slots |-> Put(current_table.slots, pos, NoneV)]
                   c == collapse_loop(ReplaceAt(self.table, path, cleared), path,
                                      first_item(cleared.slots, 1))
               IN IF c.exc # "none"
                  THEN [self |-> [self EXCEPT !.table = c.table], exc |-> c.exc]
                  ELSE [self |-> [table |-> c.table, count |-> self.count - 1],
                        exc |-> "none"]

iht_delitem(self, key) == del_loop(self, <<>>, key, 0)

\* the while loop of get_location; temp is the list built so far
RECURSIVE location_loop(_, _, _, _)
location_loop(current_table, key, level, temp) ==
  LET pos == iht_hash(key, level)
      slot == At(current_table.slots, pos)
  IN IF slot # NoneV /\ slot[2] # key
     THEN IF IsLeaf(slot) THEN [exc |-> "KeyError", location |-> <<>>]
          ELSE location_loop(slot[3], key, level + 1, Append(temp, pos))
     ELSE [exc |-> "none", location |-> Append(temp, pos)]

get_location(self, key) == location_loop(self.table, key, 0, <<>>)

\* the for loop of __getitem__: current = current[index][1].  kind tells
\* what is returned: the value of a leaf, or a child ArrayR
RECURSIVE follow(_, _)
follow(current_table, location) ==
  LET slot == At(current_table.slots, Head(location)) IN
  IF slot = NoneV THEN [exc |-> "TypeError", kind |-> "none", val |-> 0]
  ELSE IF Len(location) = 1
       THEN IF IsLeaf(slot) THEN [exc |-> "none", kind |-> "value", val |-> slot[3]]
            ELSE [exc |-> "none", kind |-> "ArrayR", val |-> 0]
       ELSE IF IsLeaf(slot) THEN [exc |-> "TypeError", kind |-> "none", val |-> 0]
            ELSE follow(slot[3], Tail(location))

iht_getitem(self, key) ==
  LET l == get_location(self, key) IN
  IF l.exc # "none" THEN [exc |-> l.exc, kind |-> "none", val |-> 0]
  ELSE follow(self.table, l.location)

\* val is 1 for True and 0 for False; only KeyError is caught
iht_contains(self, key) ==
  LET g == iht_getitem(self, key) IN
  IF g.exc = "KeyError" THEN [exc |-> "none", val |-> 0]
  ELSE IF g.exc = "none" THEN [exc |-> "none", val |-> 1]
  ELSE [exc |-> g.exc, val |-> 0]

iht_len(self) == self.count

(***************************************************************************)
(* The InfiniteHashTable state machine.                                    *)
(***************************************************************************)
\* number of set and delete calls made on an InfiniteHashTable
MaxTrieCalls == 4

IInit ==
  /\ iht = iht_new
  /\ iret = [op |-> "init", key |-> <<>>, exc |-> "none"]
  /\ ilive = [s \in KeyStrings |-> 0]
  /\ icalls = 0

\* a call that never returns leaves the program inside it; the object is
\* then kept as it was when the call was made
IRunning == iret.exc # "Hang"

\* table[key] = value
ISet(key, value) ==
  /\ IRunning
  /\ icalls < MaxTrieCalls
  /\ icalls' = icalls + 1
  /\ LET r == iht_setitem(iht, key, value) IN
     /\ iht' = r.self
     /\ iret' = [op |-> "set", key |-> key.s, exc |-> r.exc]
     /\ ilive' = IF r.exc = "none" THEN [ilive EXCEPT ![key.s] = value] ELSE ilive
  /\ UNCHANGED dvars

\* del table[key]
IDel(key) ==
  /\ IRunning
  /\ icalls < MaxTrieCalls
  /\ icalls' = icalls + 1
  /\ LET r == iht_delitem(iht, key) IN
     /\ iht' = r.self
     /\ iret' = [op |-> "del", key |-> key.s, exc |-> r.exc]
     /\ ilive' = IF r.exc = "none" THEN [ilive EXCEPT ![key.s] = 0] ELSE ilive
  /\ UNCHANGED dvars

\* table[key], table.get_location(key), key in table, len(table): they
\* write no slot and no counter; what they return or raise is the value of
\* iht_getitem, get_location, iht_contains, iht_len on the current object
IRead(key) ==
  /\ IRunning
  /\ iht_getitem(iht, key).exc \in {"none", "KeyError", "TypeError"}
  /\ UNCHANGED vars

INext ==
  \/ \E key \in KeyObjs, value \in Values : ISet(key, value)
  \/ \E key \in KeyObjs : IDel(key)
  \/ \E key \in KeyObjs : IRead(key)

(***************************************************************************)
(* Specifications: one table at a time, the other left as constructed.     *)
(***************************************************************************)
InitDKT == DInit /\ IInit

SpecDKT == InitDKT /\ [][DNext]_vars

InitIHT == DInitWith({<<5, 13>>}) /\ IInit

SpecIHT == InitIHT /\ [][INext]_vars

(***************************************************************************)
(* Vocabulary of the properties.                                           *)
(***************************************************************************)
\* Locate(k1, k2, is_insert = false) on the current DoubleKeyTable
Locate(self, p) == linear_probe(self, p[1], p[2], FALSE)

\* the value the table holds for the pair p: the one its nested table maps
\* key2 to in the outer slot Locate resolves to; 0 when Locate raises
Stored(self, p) ==
  LET q == Locate(self, p) IN
  IF q.exc # "none" THEN 0
  ELSE lpt_getitem(At(self.top_level_array, q.pos)[2], p[2]).val

\* the key1 values that have at least one pair the table holds
LiveKeys1(self) == {k1 \in Keys1 : \E k2 \in Keys2 :
                      <<k1, k2>> \in Pairs /\ Stored(self, <<k1, k2>>) # 0}

\* the step is a completed table[k1, k2] = v / del table[k1, k2]
DCompleted(op) ==
  dcalls' = dcalls + 1 /\ dret'.op = op /\ dret'.exc = "none"

\* the leaves of the trie below node, as (characters of the key, value)
RECURSIVE LeavesFrom(_, _)
LeavesFrom(node, i) ==
  IF i > Len(node.slots) THEN {}
  ELSE LET slot == node.slots[i]
           here == IF IsLeaf(slot) THEN {<<slot[2].s, slot[3]>>}
                   ELSE IF IsNode(slot) THEN LeavesFrom(slot[3], 1) ELSE {}
       IN here \cup LeavesFrom(node, i + 1)

Leaves(self) == LeavesFrom(self.table, 1)

StoredKeys(self) == {l[1] : l \in Leaves(self)}

\* the number of nodes (ArrayR objects) of the trie below and with node
RECURSIVE NodesFrom(_, _)
NodesFrom(node, i) ==
  IF i > Len(node.slots) THEN 1
  ELSE (IF IsNode(node.slots[i]) THEN NodesFrom(node.slots[i][3], 1) ELSE 0)
       + NodesFrom(node, i + 1)

NumNodes(self) == NodesFrom(self.table, 1)

\* hash(k, 0), hash(k, 1), ... down to the leaf that holds the key
RECURSIVE PathFrom(_, _, _)
PathFrom(node, key, level) ==
  LET pos == iht_hash(key, level)
      slot == At(node.slots, pos)
  IN IF IsNode(slot) THEN <<pos>> \o PathFrom(slot[3], key, level + 1)
     ELSE <<pos>>

\* the step is a table[key] = value / del table[key] call that was made
ICalled(op) == icalls' = icalls + 1 /\ iret'.op = op

(***************************************************************************)
(* C1..C10.                                                                *)
(***************************************************************************)
\* C1: a pair set to v and neither set nor deleted since is returned by
\* table[k1, k2] with the value v, whatever happened to the other pairs.
C1_GetReturnsLastSet ==
  \A p \in Pairs :
    dlive[p] # 0 =>
      LET g == dkt_getitem(dkt, p[1], p[2]) IN g.exc = "none" /\ g.val = dlive[p]

\* C2: a key set to v when it was not stored and not deleted since is
\* returned by table[k'] with the value v for every key object k' equal to
\* it, and get_location(k') is the path hash(k,0), hash(k,1), ... to its leaf.
C2_TrieGetReturnsLastSet ==
  \A k \in KeyObjs :
    ilive[k.s] # 0 =>
      /\ LET g == iht_getitem(iht, k) IN
           g.exc = "none" /\ g.kind = "value" /\ g.val = ilive[k.s]
      /\ LET l == get_location(iht, k) IN
           l.exc = "none" /\ l.location = PathFrom(iht.table, k, 0)

\* C3: after del table[k1, k2] has returned, Locate(k1, k2, false) raises
\* KeyError: the pair is absent.
C3_DeletedPairAbsent ==
  (dret.op = "del" /\ dret.exc = "none") => Locate(dkt, dret.key).exc = "KeyError"

\* C4: a del that returns leaves every other pair that was held with the
\* value most recently set for it held with that value.
C4_DeleteKeepsSiblings ==
  [][DCompleted("del") =>
       \A p \in Pairs \ {dret'.key} :
         (dlive[p] # 0 /\ Stored(dkt, p) = dlive[p]) => Stored(dkt', p) = dlive[p]]_vars

\* C5: a set that grows the outer array leaves every other pair as it was
\* held before (same value, or still absent) and holds the pair set.
C5_GrowthPreservesContent ==
  [][(DCompleted("set") /\ table_size(dkt') # table_size(dkt)) =>
       \A p \in Pairs :
         Stored(dkt', p) = IF p = dret'.key THEN dlive'[p] ELSE Stored(dkt, p)]_vars

\* C6: after a set or delete that returned, len(table) is the number of
\* distinct key1 with at least one pair held.
C6_LenCountsLiveKeys1 ==
  (dret.op \in {"set", "del"} /\ dret.exc = "none") =>
     dkt_len(dkt) = Cardinality(LiveKeys1(dkt))

\* C7: after every set and delete, completed or failed, len(table) is the
\* number of distinct keys stored as leaves of the trie.
C7_TrieLenCountsLeaves ==
  IRunning => iht_len(iht) = Cardinality(StoredKeys(iht))

\* C8: table[k] = v2 on a stored key k returns, stores v2 for k, leaves
\* len(table) as it was and creates no node.
C8_OverwriteInPlace ==
  [][(ICalled("set") /\ iret'.key \in StoredKeys(iht)) =>
       /\ iret'.exc = "none"
       /\ <<iret'.key, ilive'[iret'.key]>> \in Leaves(iht')
       /\ iht_len(iht') = iht_len(iht)
       /\ NumNodes(iht') = NumNodes(iht)]_vars

\* C9: for a key that is not stored, table[k] and get_location(k) raise
\* KeyError and k in table is False.
C9_AbsentGetRaisesKeyError ==
  \A k \in KeyObjs :
    k.s \notin StoredKeys(iht) =>
      /\ iht_getitem(iht, k).exc = "KeyError"
      /\ get_location(iht, k).exc = "KeyError"
      /\ iht_contains(iht, k) = [exc |-> "none", val |-> 0]

\* C10: del table[k] of a key that is not stored raises KeyError and leaves
\* every slot, every node counter and the global count as they were.
C10_AbsentDeleteRaisesKeyError ==
  [][(ICalled("del") /\ iret'.key \notin StoredKeys(iht)) =>
       (iret'.exc = "KeyError" /\ iht' = iht)]_vars

(***************************************************************************)
(* Vocabulary of C11..C20.                                                 *)
(***************************************************************************)
\* the leaves of the trie below node, as (key object, value)
RECURSIVE LeafObjsFrom(_, _)
LeafObjsFrom(node, i) ==
  IF i > Len(node.slots) THEN {}
  ELSE LET slot == node.slots[i]
           here == IF IsLeaf(slot) THEN {<<slot[2], slot[3]>>}
                   ELSE IF IsNode(slot) THEN LeafObjsFrom(slot[3], 1) ELSE {}
       IN here \cup LeafObjsFrom(node, i + 1)

LeafObjs(self) == LeafObjsFrom(self.table, 1)

\* the internal slots of a node
Children(node) == {i \in 1..Len(node.slots) : IsNode(node.slots[i])}

\* some node below node (node itself excluded) has exactly one leaf beneath
RECURSIVE HasSingleLeafNode(_)
HasSingleLeafNode(node) ==
  \E i \in Children(node) :
    \/ Cardinality(LeafObjsFrom(node.slots[i][3], 1)) = 1
    \/ HasSingleLeafNode(node.slots[i][3])

\* the table after table[k] = v for each (k, v) of seq, in order
RECURSIVE Build(_, _)
Build(self, seq) ==
  IF seq = <<>> THEN [self |-> self, exc |-> "none"]
  ELSE LET r == iht_setitem(self, seq[1][1], seq[1][2]) IN
       IF r.exc # "none" THEN r ELSE Build(r.self, Tail(seq))

\* the orders in which the elements of a set can be listed
Orders(S) ==
  {f \in [1..Cardinality(S) -> S] : \A i, j \in DOMAIN f : f[i] = f[j] => i = j}

\* a node with the tags of its internal slots left out
RECURSIVE Untagged(_)
Untagged(node) ==
  [count |-> node.count,
   slots |-> [i \in 1..Len(node.slots) |->
                IF IsNode(node.slots[i])
                THEN <<"node", Untagged(node.slots[i][3])>>
                ELSE node.slots[i]]]

\* which slots of which nodes hold a leaf, an internal pointer or nothing
RECURSIVE Shape(_)
Shape(node) ==
  [i \in 1..Len(node.slots) |->
     IF IsNode(node.slots[i]) THEN <<"node", Shape(node.slots[i][3])>>
     ELSE IF IsLeaf(node.slots[i]) THEN <<"leaf">> ELSE NoneV]

\* the table is, tags apart, what sets of its leaves into an empty table
\* give in some order: no failed or diverted call has left a trace in it
Clean(self) ==
  \E o \in Orders(LeafObjs(self)) :
    LET b == Build(iht_new, o) IN
      /\ b.exc = "none"
      /\ Untagged(b.self.table) = Untagged(self.table)
      /\ b.self.count = self.count

\* C11: a del of a stored key returns and leaves no node other than the
\* root with exactly one leaf beneath it, and every other stored key is
\* still returned by table[k] with its value.
C11_DeleteCollapses ==
  [][(ICalled("del") /\ iret'.key \in StoredKeys(iht) /\ Clean(iht)) =>
       /\ iret'.exc = "none"
       /\ ~HasSingleLeafNode(iht'.table)
       /\ \A l \in LeafObjs(iht) :
            l[1].s # iret'.key =>
              LET g == iht_getitem(iht', l[1]) IN
                g.exc = "none" /\ g.kind = "value" /\ g.val = l[2]]_vars

\* no occupied outer slot holds key1 with a nested table that holds key2
AbsentPair(self, p) ==
  \A i \in 1..Len(self.top_level_array) :
    LET slot == self.top_level_array[i] IN
      \/ slot = NoneV
      \/ slot[1] # p[1]
      \/ \A j \in 1..Len(slot[2].array) :
           slot[2].array[j] = NoneV \/ slot[2].array[j][1] # p[2]

\* some occupied outer slot holds key1
HoldsKey1(self, key1) ==
  \E i \in 1..Len(self.top_level_array) :
    self.top_level_array[i] # NoneV /\ self.top_level_array[i][1] = key1

\* C12: for a pair that no outer slot holds, table[k1, k2] and
\* del table[k1, k2] raise KeyError, (k1, k2) in table is False, and the
\* del leaves the outer array, the nested tables and count as they were.
C12_AbsentLookups ==
  \A p \in Pairs :
    AbsentPair(dkt, p) =>
      /\ dkt_getitem(dkt, p[1], p[2]).exc = "KeyError"
      /\ dkt_contains(dkt, p[1], p[2]) = [exc |-> "none", val |-> 0]
      /\ dkt_delitem(dkt, p[1], p[2]) = [self |-> dkt, exc |-> "KeyError"]

\* a del of a pair whose key1 is held but whose key2 is not has raised
\* KeyError
C12_Witness ==
  /\ dret.op = "del" /\ dret.exc = "KeyError"
  /\ AbsentPair(dkt, dret.key)
  /\ HoldsKey1(dkt, dret.key[1])

\* the step is a table[k1, k2] = v / del table[k1, k2] call that was made
DCalled(op) == dcalls' = dcalls + 1 /\ dret'.op = op

\* the outer capacity is the last entry of the capacity sequence
LastCapacity(self) == table_size(self) = self.TABLE_SIZES[Len(self.TABLE_SIZES)]

\* C13: once the outer capacity is the last of the sequence, a set for which
\* the probe finds a slot returns without raising and leaves the capacity
\* as it was.
C13_ExhaustedGrowthSilent ==
  [][(/\ DCalled("set")
      /\ LastCapacity(dkt)
      /\ linear_probe(dkt, dret'.key[1], dret'.key[2], TRUE).exc = "none") =>
       (dret'.exc = "none" /\ table_size(dkt') = table_size(dkt))]_vars

\* every outer slot is occupied, and by a key1 other than the given one
FullOfOthers(self, key1) ==
  \A i \in 1..Len(self.top_level_array) :
    self.top_level_array[i] # NoneV /\ self.top_level_array[i][1] # key1

\* C14: a set raises no error from the outer level but FullError, and that
\* exactly when every outer slot holds another key1 and the capacity is the
\* last of the sequence; a set or del that raises leaves the outer array,
\* the nested tables, count and the capacity index as they were.
C14_ErrorsLeaveTableUnchanged ==
  [][(dcalls' = dcalls + 1 /\ dret'.exc \notin {"none", "Hang"}) =>
       /\ dkt' = dkt
       /\ dret'.op = "set" =>
            /\ dret'.exc = "FullError"
            /\ FullOfOthers(dkt, dret'.key[1])
            /\ LastCapacity(dkt)]_vars

\* C15: after a set or del that returned, no two occupied outer slots hold
\* the same key1, and keys() lists each key1 once.
C15_OuterKeysUnique ==
  dret.exc = "none" =>
  /\ \A i, j \in 1..Len(dkt.top_level_array) :
       (/\ dkt.top_level_array[i] # NoneV
        /\ dkt.top_level_array[j] # NoneV
        /\ dkt.top_level_array[i][1] = dkt.top_level_array[j][1]) => i = j
  /\ \A i, j \in 1..Len(dkt_keys(dkt)) : dkt_keys(dkt)[i] = dkt_keys(dkt)[j] => i = j

\* the capacity of new is the entry of the capacity sequence after that of old
NextCapacity(old, new) ==
  \E i \in 1..(Len(old.TABLE_SIZES) - 1) :
    table_size(old) = old.TABLE_SIZES[i] /\ table_size(new) = old.TABLE_SIZES[i + 1]

RECURSIVE CountsAreSlots(_)
CountsAreSlots(node) ==
  /\ node.count = Cardinality({i \in 1..Len(node.slots) : node.slots[i] # NoneV})
  /\ \A i \in Children(node) : CountsAreSlots(node.slots[i][3])

\* C17: after a set or del that returned, the counter of every node, the
\* root included, is the number of non-empty slots of that node.
C17_CounterIsOccupancy ==
  (iret.op \in {"set", "del"} /\ iret.exc = "none") => CountsAreSlots(iht.table)

\* p is a prefix of s (sequences of character codes)
IsPrefix(p, s) == Len(p) <= Len(s) /\ SubSeq(s, 1, Len(p)) = p

\* the character of a key at position d, 0 when the key ends before it
CharAt(key, d) == IF d < Len(key.s) THEN key.s[d + 1] ELSE 0

\* the node, at depth d, and every node below it are laid out as the
\* hash prescribes
RECURSIVE Placed(_, _)
Placed(node, d) ==
  /\ \A i \in 1..Len(node.slots) :
       IsLeaf(node.slots[i]) => i - 1 = iht_hash(node.slots[i][2], d)
  /\ \A i \in Children(node) :
       /\ \A l \in LeafObjsFrom(node.slots[i][3], 1) :
            IsPrefix(node.slots[i][2].s, l[1].s)
       /\ Placed(node.slots[i][3], d + 1)
  /\ \A i, j \in 1..Len(node.slots) :
       (IsLeaf(node.slots[i]) /\ IsLeaf(node.slots[j]) /\ i # j) =>
          CharAt(node.slots[i][2], d) # CharAt(node.slots[j][2], d)

\* C18: after a set or del that returned, every leaf at depth d sits in
\* slot hash(key, d), every key beneath an internal slot starts with the
\* slot's tag, and two leaves of one node differ at the position of its depth.
C18_PlacementInvariant ==
  (iret.op \in {"set", "del"} /\ iret.exc = "none") => Placed(iht.table, 0)

\* the length of the longest common prefix of two strings
RECURSIVE CommonPrefix(_, _)
CommonPrefix(a, b) ==
  IF a = <<>> \/ b = <<>> \/ Head(a) # Head(b) THEN 0
  ELSE 1 + CommonPrefix(Tail(a), Tail(b))

\* the longest common prefix of a string with the strings of a set
LongestShared(s, strings) ==
  IF strings = {} THEN 0
  ELSE CHOOSE n \in {CommonPrefix(s, t) : t \in strings} :
         \A t \in strings : CommonPrefix(s, t) <= n

\* C19: table[k] = v for a key k that is not stored returns, after creating
\* at most (longest common prefix of k with a stored key) + 1 nodes.
C19_InsertionTerminates ==
  [][(ICalled("set") /\ iret'.key \notin StoredKeys(iht) /\ Clean(iht)) =>
       /\ iret'.exc = "none"
       /\ NumNodes(iht') - NumNodes(iht)
            <= LongestShared(iret'.key, StoredKeys(iht)) + 1]_vars

\* C20: after a completed set of a key that was not stored, or a completed
\* del of a stored key, on a table built by such calls, the trie has the
\* shape that sets of its stored keys into an empty table give, in any order.
C20_ShapeHistoryIndependent ==
  [][(/\ Clean(iht)
      /\ \/ ICalled("set") /\ iret'.key \notin StoredKeys(iht)
         \/ ICalled("del") /\ iret'.key \in StoredKeys(iht)
      /\ iret'.exc = "none") =>
       \A o \in Orders(LeafObjs(iht')) :
         LET b == Build(iht_new, o) IN
           b.exc = "none" /\ Shape(b.self.table) = Shape(iht'.table)]_vars

=============================================================================
